---------------------------- MODULE Spec2Model ----------------------------
(* generate_repo.py: scan a directory of add-on archives, keep the latest  *)
(* version of each add-on id, write addons.xml and addons.xml.md5.         *)
(*                                                                         *)
(* Strings are sequences of one-character strings, so that the regular    *)
(* expression of normalize_version, str.lower, int() and Python's string   *)
(* and tuple comparisons are computed character by character.              *)
EXTENDS Integers, Sequences, FiniteSets, TLC

VARIABLES
    zips,        \* the archives zips_dir.rglob("*.zip") yields, in its order
    idx,         \* how many of them find_addons has processed
    latest,      \* main's dict: addon id -> index in zips of the kept record
    stderr,      \* the warnings and diagnostics printed to sys.stderr
    pc,          \* main's position
    xml_bytes,   \* build_addons_xml's serialized root element
    addons_xml,  \* content of out_dir/addons.xml (None: no such file)
    addons_md5,  \* content of out_dir/addons.xml.md5 (None: no such file)
    writes,      \* the output files written by this run, in order
    exit_code,   \* the process's exit status (None: still running)
    va, vb,      \* two version strings given to normalize_version
    ka, kb,      \* their keys
    cmp,         \* Python's comparison of the two keys
    vpc          \* position of the version-comparison run

vars == <<zips, idx, latest, stderr, pc, xml_bytes, addons_xml, addons_md5,
          writes, exit_code, va, vb, ka, kb, cmp, vpc>>
runVars == <<zips, idx, latest, stderr, pc, xml_bytes, addons_xml,
             addons_md5, writes, exit_code>>
verVars == <<va, vb, ka, kb, cmp, vpc>>

---------------------------------------------------------------------------
(* Bounds of the model.                                                    *)

\* archives in the input directory
MaxArchives == 3
\* characters of a version string in the comparison runs
MaxVerLen == 2
\* characters of a version string in the tokenizing runs
MaxTokLen == 4

---------------------------------------------------------------------------
(* Characters.                                                             *)

Digits == {"0", "1", "2", "3"}
Lower == {"a", "b", "d", "e", "h", "l", "m", "n", "o", "p", "t"}
Upper == {"A", "B"}
\* A character class that takes "~" for a letter: [A-Za-z~]
Letters_tilde == Lower \cup Upper \cup {"~"}
Letters == Lower \cup Upper

\* ord(c)
CodePoint(c) ==
    CASE c = "+" -> 43 [] c = "." -> 46
      [] c = "0" -> 48 [] c = "1" -> 49 [] c = "2" -> 50 [] c = "3" -> 51
      [] c = "A" -> 65 [] c = "B" -> 66
      [] c = "a" -> 97 [] c = "b" -> 98 [] c = "d" -> 100 [] c = "e" -> 101
      [] c = "h" -> 104 [] c = "l" -> 108 [] c = "m" -> 109
      [] c = "n" -> 110 [] c = "o" -> 111 [] c = "p" -> 112
      [] c = "t" -> 116 [] c = "~" -> 126

\* int(c) of one decimal digit
DigitValue(c) == CodePoint(c) - 48

\* the regular expression's \d and [A-Za-z]
IsDigit(c) == c \in Digits
IsAlpha(c) == c \in Letters

\* str.lower of one character
LowerChar(c) == IF c \in Upper THEN (CASE c = "A" -> "a" [] c = "B" -> "b") ELSE c

\* str.lower
StrLower(s) == [i \in 1..Len(s) |-> LowerChar(s[i])]

\* int(token) of a run of decimal digits
RECURSIVE StrToInt(_)
StrToInt(s) ==
    IF s = <<>> THEN 0
    ELSE 10 * StrToInt(SubSeq(s, 1, Len(s) - 1)) + DigitValue(s[Len(s)])

\* Python's three-way comparison of two str values: by code point at the
\* first position where they differ, a proper prefix first.
RECURSIVE StrCmp(_, _)
StrCmp(s, t) ==
    IF s = <<>> /\ t = <<>> THEN "eq"
    ELSE IF s = <<>> THEN "lt"
    ELSE IF t = <<>> THEN "gt"
    ELSE IF CodePoint(s[1]) < CodePoint(t[1]) THEN "lt"
    ELSE IF CodePoint(s[1]) > CodePoint(t[1]) THEN "gt"
    ELSE StrCmp(Tail(s), Tail(t))

IntCmp(m, n) == IF m < n THEN "lt" ELSE IF m > n THEN "gt" ELSE "eq"

---------------------------------------------------------------------------
(* normalize_version.                                                      *)

\* The end of the longest run of characters of the class cls that starts at
\* v[i]: the + of the regular expression is greedy.
RECURSIVE RunEnd(_, _, _)
RunEnd(v, i, cls) ==
    IF i < Len(v) /\ v[i + 1] \in cls THEN RunEnd(v, i + 1, cls) ELSE i

\* re.findall(r"\d+|[A-Za-z]+", v), from position i on: the leftmost match,
\* as long as it can be, then the matches after it.
RECURSIVE FindAll(_, _)
FindAll(v, i) ==
    IF i > Len(v) THEN <<>>
    ELSE IF IsDigit(v[i])
         THEN <<SubSeq(v, i, RunEnd(v, i, Digits))>>
              \o FindAll(v, RunEnd(v, i, Digits) + 1)
    ELSE IF IsAlpha(v[i])
         THEN <<SubSeq(v, i, RunEnd(v, i, Letters))>>
              \o FindAll(v, RunEnd(v, i, Letters) + 1)
    ELSE FindAll(v, i + 1)

\* token.isdigit()
TokenIsDigit(token) == \A i \in 1..Len(token) : IsDigit(token[i])

\* The pairs (0, int(token)) and (1, token.lower()). typ is the Python type
\* of the pair's second component, which decides whether two of them can be
\* compared at all.
NumPart(token) == [tag |-> 0, typ |-> "int", int |-> StrToInt(token), str |-> <<>>]
\* (1, token): the text kept in the case it was written in
TextPart_nolower(token) == [tag |-> 1, typ |-> "str", int |-> 0, str |-> token]
\* (0, token.lower()): text tagged like a number
TextPart_tag0(token) == [tag |-> 0, typ |-> "str", int |-> 0, str |-> StrLower(token)]
TextPart(token) == [tag |-> 1, typ |-> "str", int |-> 0, str |-> StrLower(token)]

Part(token) == IF TokenIsDigit(token) THEN NumPart(token) ELSE TextPart(token)

normalize_version(v) ==
    LET primary == FindAll(v, 1)
    IN  [i \in 1..Len(primary) |-> Part(primary[i])]

\* Python's == of two of the pairs
PartEq(x, y) ==
    /\ x.tag = y.tag
    /\ x.typ = y.typ
    /\ IF x.typ = "int" THEN x.int = y.int ELSE x.str = y.str

\* Python's ordering of two pairs that are not ==: by the first components
\* if they differ, else by the second ones, which is a TypeError when one
\* is an int and the other a str.
PartCmp(x, y) ==
    IF x.tag # y.tag THEN IntCmp(x.tag, y.tag)
    ELSE IF x.typ # y.typ THEN "TypeError"
    ELSE IF x.typ = "int" THEN IntCmp(x.int, y.int)
    ELSE StrCmp(x.str, y.str)

\* Python's ordering of two tuples of pairs: the first position where they
\* are not == decides; with none, the shorter tuple is the smaller.
RECURSIVE TupleCmp(_, _)
TupleCmp(k1, k2) ==
    IF k1 = <<>> /\ k2 = <<>> THEN "eq"
    ELSE IF k1 = <<>> THEN "lt"
    ELSE IF k2 = <<>> THEN "gt"
    ELSE IF PartEq(k1[1], k2[1]) THEN TupleCmp(Tail(k1), Tail(k2))
    ELSE PartCmp(k1[1], k2[1])

\* v > w: the version strings compared as text
VersionGreater_text(v, w) == StrCmp(v, w) = "gt"
\* normalize_version(v) > normalize_version(w), as main evaluates it
VersionGreater(v, w) == TupleCmp(normalize_version(v), normalize_version(w)) = "gt"

---------------------------------------------------------------------------
(* The input directory.                                                    *)

\* attrib.get(name) of an attribute the element does not carry: None. It is
\* a sequence, like the strings, and is no string.
Absent == <<"None">>

IdA == <<"a", ".", "a", "d", "d", "o", "n">>
IdB == <<"b", ".", "a", "d", "d", "o", "n">>
AddonIds == {IdA, IdB}

V120 == <<"1", ".", "2", ".", "0">>
V130 == <<"1", ".", "3", ".", "0">>
V1030 == <<"1", ".", "0", "3", ".", "0">>
\* "1.3.0" and "1.03.0" have the same key, above that of "1.2.0"; as text,
\* "1.03.0" is below "1.2.0".
VersionPool == {V120, V130, V1030}

\* What one *.zip path under zips_dir holds: whether zipfile can open it,
\* whether one of its names ends in /addon.xml, whether that entry parses,
\* and the root element's id and version attributes.
Archive(zip, entry, xml, id, version) ==
    [zip |-> zip, entry |-> entry, xml |-> xml, id |-> id, version |-> version]

Archives ==
    {Archive("bad", "none", "none", Absent, Absent),
     Archive("ok", "none", "none", Absent, Absent),
     Archive("ok", "found", "bad", Absent, Absent)}
    \cup {Archive("ok", "found", "ok", id, V120) : id \in {Absent, <<>>}}
    \cup {Archive("ok", "found", "ok", IdA, ver) : ver \in {Absent, <<>>}}
    \cup {Archive("ok", "found", "ok", id, ver) : id \in AddonIds, ver \in VersionPool}

SeqsUpTo(S, n) == UNION {[1..m -> S] : m \in 0..n}

---------------------------------------------------------------------------
(* find_addons.                                                            *)

\* Python's "not x" of an attribute value: None and "" are falsy
Falsy(x) == x = Absent \/ x = <<>>

\* One turn of find_addons's loop on archive a: the warning it prints, or
\* the record it yields.
Warn(msg) == [yield |-> FALSE, warn |-> msg]
Yield == [yield |-> TRUE, warn |-> "none"]

\* "is None" for "not": an empty id or version passes
find_addons_isnone(a) ==
    IF a.zip = "bad" THEN Warn("Bad zip file")
    ELSE IF a.entry = "none" THEN Warn("No addon.xml found")
    ELSE IF a.xml = "bad" THEN Warn("exception")
    ELSE IF a.id = Absent \/ a.version = Absent THEN Warn("Missing id/version")
    ELSE Yield

find_addons(a) ==
    IF a.zip = "bad" THEN Warn("Bad zip file")
    ELSE IF a.entry = "none" THEN Warn("No addon.xml found")
    ELSE IF a.xml = "bad" THEN Warn("exception")
    ELSE IF Falsy(a.id) \/ Falsy(a.version) THEN Warn("Missing id/version")
    ELSE Yield

---------------------------------------------------------------------------
(* main's selection.                                                       *)

EmptyDict == <<>>

\* latest[key] = record
DictSet(d, key, value) ==
    [k \in DOMAIN d \cup {key} |-> IF k = key THEN value ELSE d[k]]

\* ">=" for ">": a record of an equal version replaces the kept one
SelectLatest_ge(tbl, i) ==
    LET key == zips[i].id
    IN  IF key \notin DOMAIN tbl
           \/ TupleCmp(normalize_version(zips[i].version),
                       normalize_version(zips[tbl[key]].version)) \in {"gt", "eq"}
        THEN DictSet(tbl, key, i)
        ELSE tbl

\* No comparison: the record scanned last is kept
SelectLatest_last(tbl, i) == DictSet(tbl, zips[i].id, i)

\* The body of main's loop for the record yielded by archive i: the record
\* is kept when its id has none yet, or its version is greater than the
\* kept one's.
SelectLatest(tbl, i) ==
    LET key == zips[i].id
    IN  IF key \notin DOMAIN tbl
           \/ VersionGreater(zips[i].version, zips[tbl[key]].version)
        THEN DictSet(tbl, key, i)
        ELSE tbl

---------------------------------------------------------------------------
(* Serialization.                                                          *)

\* The greatest string: sorted(..., reverse=True)
MinStr_reverse(S) == CHOOSE s \in S : \A t \in S : StrCmp(s, t) \in {"gt", "eq"}
\* The smallest string of a non-empty set, under Python's str ordering
MinStr(S) == CHOOSE s \in S : \A t \in S : StrCmp(s, t) \in {"lt", "eq"}

\* sorted(latest.keys())
RECURSIVE SortedKeys(_)
SortedKeys(S) ==
    IF S = {} THEN <<>>
    ELSE <<MinStr(S)>> \o SortedKeys(S \ {MinStr(S)})

\* The pieces of the output: the XML declaration line, the root element's
\* tags, and the descriptor element of archive src.
Chunk(tag, src) == [tag |-> tag, src |-> src]
XmlDeclaration == Chunk("<?xml?>", 0)
Elem(i) == Chunk("addon", i)

\* selected = [latest[k] for k in sorted(latest.keys())]
Selected(tbl) ==
    LET keys == SortedKeys(DOMAIN tbl)
    IN  [j \in 1..Len(keys) |-> tbl[keys[j]]]

\* ET.tostring of a root element "addons" with the entries' elements
\* appended in order
Serialize(entries) ==
    <<Chunk("<addons>", 0)>>
    \o [j \in 1..Len(entries) |-> Elem(entries[j])]
    \o <<Chunk("</addons>", 0)>>

\* hashlib.md5(content).hexdigest(): a function of the content, kept
\* symbolic
md5hex(content) == <<"md5", content>>

NoFile == [exists |-> FALSE, content |-> <<>>]
File(content) == [exists |-> TRUE, content |-> content]

\* What an earlier run left in out_dir
PreviousXml == File(<<XmlDeclaration, Chunk("previous", 0)>>)
PreviousMd5 == File(md5hex(PreviousXml.content))

---------------------------------------------------------------------------
(* The loop of main over a given scan order.                               *)

\* latest after find_addons has gone through the archives in the order
\* given, starting from tbl
RECURSIVE ScanAll(_, _)
ScanAll(tbl, order) ==
    IF order = <<>> THEN tbl
    ELSE ScanAll(IF find_addons(zips[Head(order)]).yield
                 THEN SelectLatest(tbl, Head(order))
                 ELSE tbl,
                 Tail(order))

\* What build_addons_xml writes to addons.xml for the table tbl
Document(tbl) == <<XmlDeclaration>> \o Serialize(Selected(tbl))

---------------------------------------------------------------------------
(* The run of main.                                                        *)

VerIdle ==
    /\ va = <<>> /\ vb = <<>> /\ ka = <<>> /\ kb = <<>>
    /\ cmp = "none" /\ vpc = "idle"

Init ==
    /\ zips \in SeqsUpTo(Archives, MaxArchives)
    /\ idx = 0
    /\ latest = EmptyDict
    /\ stderr = <<>>
    /\ pc = "scan"
    /\ xml_bytes = <<>>
    /\ \E previous \in BOOLEAN :
         /\ addons_xml = IF previous THEN PreviousXml ELSE NoFile
         /\ addons_md5 = IF previous THEN PreviousMd5 ELSE NoFile
    /\ writes = <<>>
    /\ exit_code = <<>>
    /\ VerIdle

\* find_addons skips the next archive with a warning.
ScanWarn ==
    /\ pc = "scan" /\ idx < Len(zips)
    /\ ~find_addons(zips[idx + 1]).yield
    /\ stderr' = Append(stderr, [warn |-> find_addons(zips[idx + 1]).warn,
                                 zip_path |-> idx + 1])
    /\ idx' = idx + 1
    /\ UNCHANGED <<zips, latest, pc, xml_bytes, addons_xml, addons_md5,
                   writes, exit_code, verVars>>

\* find_addons yields the next archive's record and main's loop body runs.
ScanYield ==
    /\ pc = "scan" /\ idx < Len(zips)
    /\ find_addons(zips[idx + 1]).yield
    /\ latest' = SelectLatest(latest, idx + 1)
    /\ idx' = idx + 1
    /\ UNCHANGED <<zips, stderr, pc, xml_bytes, addons_xml, addons_md5,
                   writes, exit_code, verVars>>

\* if not latest: sys.exit(1)
ExitNoAddons ==
    /\ pc = "scan" /\ idx = Len(zips)
    /\ DOMAIN latest = {}
    /\ stderr' = Append(stderr, [warn |-> "No add-ons found", zip_path |-> 0])
    /\ exit_code' = <<1>>
    /\ pc' = "done"
    /\ UNCHANGED <<zips, idx, latest, xml_bytes, addons_xml, addons_md5,
                   writes, verVars>>

\* Without "if not latest": the output is built whatever was found
SortAndSerialize_unguarded ==
    /\ pc = "scan" /\ idx = Len(zips)
    /\ xml_bytes' = Serialize(Selected(latest))
    /\ pc' = "write_xml"
    /\ UNCHANGED <<zips, idx, latest, stderr, addons_xml, addons_md5,
                   writes, exit_code, verVars>>

\* main sorts the kept records; build_addons_xml builds and serializes the
\* root element.
SortAndSerialize ==
    /\ pc = "scan" /\ idx = Len(zips)
    /\ DOMAIN latest # {}
    /\ xml_bytes' = Serialize(Selected(latest))
    /\ pc' = "write_xml"
    /\ UNCHANGED <<zips, idx, latest, stderr, addons_xml, addons_md5,
                   writes, exit_code, verVars>>

\* open(addons_xml_path, "wb"), the declaration, xml_bytes
WriteAddonsXml ==
    /\ pc = "write_xml"
    /\ addons_xml' = File(<<XmlDeclaration>> \o xml_bytes)
    /\ writes' = Append(writes, "addons.xml")
    /\ pc' = "write_md5"
    /\ UNCHANGED <<zips, idx, latest, stderr, xml_bytes, addons_md5,
                   exit_code, verVars>>

\* The digest of xml_bytes, not of the file
WriteMd5_of_xml_bytes ==
    /\ pc = "write_md5"
    /\ addons_md5' = File(md5hex(xml_bytes))
    /\ writes' = Append(writes, "addons.xml.md5")
    /\ pc' = "summary"
    /\ UNCHANGED <<zips, idx, latest, stderr, xml_bytes, addons_xml,
                   exit_code, verVars>>

\* The file is read back, and its digest written to addons.xml.md5.
WriteMd5 ==
    /\ pc = "write_md5"
    /\ addons_md5' = File(md5hex(addons_xml.content))
    /\ writes' = Append(writes, "addons.xml.md5")
    /\ pc' = "summary"
    /\ UNCHANGED <<zips, idx, latest, stderr, xml_bytes, addons_xml,
                   exit_code, verVars>>

\* The summary is printed and main returns.
Summary ==
    /\ pc = "summary"
    /\ exit_code' = <<0>>
    /\ pc' = "done"
    /\ UNCHANGED <<zips, idx, latest, stderr, xml_bytes, addons_xml,
                   addons_md5, writes, verVars>>

Next ==
    \/ ScanWarn
    \/ ScanYield
    \/ ExitNoAddons
    \/ SortAndSerialize
    \/ WriteAddonsXml
    \/ WriteMd5
    \/ Summary

Spec == Init /\ [][Next]_vars

---------------------------------------------------------------------------
(* Runs of the version comparison alone: normalize_version on two version  *)
(* strings, then the comparison of main's line 104 on the two keys.        *)

VerAlphabet == {"0", "1", "a", "B", "."}
TokAlphabet == {"0", "1", "a", "B", ".", "~"}

V100 == <<"1", ".", "0", ".", "0">>
V100a == <<"1", ".", "0", ".", "0", "a">>
V101 == <<"1", ".", "0", ".", "1">>
V100alpha == <<"1", ".", "0", ".", "0", "~", "a", "l", "p", "h", "a">>
V100meta == <<"1", ".", "0", ".", "0", "+", "m", "e", "t", "a">>
V10 == <<"1", ".", "0">>
V1_00 == <<"1", ".", "0", "0">>
V10a == <<"1", ".", "0", "a">>
V10A == <<"1", ".", "0", "A">>

\* The version strings the specification and the claims name
NamedVersions ==
    {V100, V100a, V101, V100alpha, V100meta, V10, V1_00, V10a, V10A}
    \cup VersionPool

VerInputs == SeqsUpTo(VerAlphabet, MaxVerLen) \cup NamedVersions
TokInputs == SeqsUpTo(TokAlphabet, MaxTokLen) \cup NamedVersions

RunIdle ==
    /\ zips = <<>> /\ idx = 0 /\ latest = EmptyDict /\ stderr = <<>>
    /\ pc = "idle" /\ xml_bytes = <<>>
    /\ addons_xml = NoFile /\ addons_md5 = NoFile
    /\ writes = <<>> /\ exit_code = <<>>

VerInit ==
    /\ RunIdle
    /\ va \in VerInputs /\ vb \in VerInputs
    /\ ka = <<>> /\ kb = <<>>
    /\ cmp = "none"
    /\ vpc = "input"

\* normalize_version(addon_ver), normalize_version(best[1])
Normalize ==
    /\ vpc = "input"
    /\ ka' = normalize_version(va)
    /\ kb' = normalize_version(vb)
    /\ vpc' = "normalized"
    /\ UNCHANGED <<va, vb, cmp, runVars>>

\* The comparison of the two keys
Compare ==
    /\ vpc = "normalized"
    /\ cmp' = TupleCmp(ka, kb)
    /\ vpc' = "compared"
    /\ UNCHANGED <<va, vb, ka, kb, runVars>>

VerNext == Normalize \/ Compare

VerSpec == VerInit /\ [][VerNext]_vars

\* Runs of normalize_version on one, longer, version string
TokInit ==
    /\ RunIdle
    /\ va \in TokInputs /\ vb = <<>>
    /\ ka = <<>> /\ kb = <<>>
    /\ cmp = "none"
    /\ vpc = "input"

TokNext == Normalize

TokSpec == TokInit /\ [][TokNext]_vars

---------------------------------------------------------------------------
(* The version ordering as the specification words it, for the claims.     *)

CharClass(c) ==
    IF c \in Digits THEN "digit"
    ELSE IF c \in Lower \cup Upper THEN "letter"
    ELSE "separator"

\* <<i, j>> is a maximal run of digits, or of letters, of v
IsMaximalRun(v, i, j) ==
    /\ CharClass(v[i]) # "separator"
    /\ \A k \in i..j : CharClass(v[k]) = CharClass(v[i])
    /\ i = 1 \/ CharClass(v[i - 1]) # CharClass(v[i])
    /\ j = Len(v) \/ CharClass(v[j + 1]) # CharClass(v[i])

MaximalRuns(v) ==
    {r \in (1..Len(v)) \X (1..Len(v)) : r[1] <= r[2] /\ IsMaximalRun(v, r[1], r[2])}

\* The place of run r among the runs of v, from the left
RunRank(v, r) == Cardinality({q \in MaximalRuns(v) : q[1] <= r[1]})

RECURSIVE Pow10(_)
Pow10(n) == IF n = 0 THEN 1 ELSE 10 * Pow10(n - 1)

RECURSIVE SumDigits(_, _, _)
SumDigits(v, i, j) ==
    IF i > j THEN 0
    ELSE (CodePoint(v[i]) - CodePoint("0")) * Pow10(j - i) + SumDigits(v, i + 1, j)

FoldCase(c) == IF c = "A" THEN "a" ELSE IF c = "B" THEN "b" ELSE c

\* Part k of a key is what the run r of v stands for
PartIsRun(k, v, r) ==
    IF CharClass(v[r[1]]) = "digit"
    THEN k.tag = 0 /\ k.typ = "int" /\ k.int = SumDigits(v, r[1], r[2])
    ELSE /\ k.tag = 1 /\ k.typ = "str"
         /\ k.str = [n \in 1..(r[2] - r[1] + 1) |-> FoldCase(v[r[1] + n - 1])]

KeyIsRuns(k, v) ==
    /\ Len(k) = Cardinality(MaximalRuns(v))
    /\ \A r \in MaximalRuns(v) : PartIsRun(k[RunRank(v, r)], v, r)

\* Text order: the first differing character decides, a proper prefix first
TextBefore(s, t) ==
    \E n \in 1..(Len(t)) :
        /\ \A m \in 1..(n - 1) : m <= Len(s) /\ s[m] = t[m]
        /\ \/ n = Len(s) + 1
           \/ n <= Len(s) /\ CodePoint(s[n]) < CodePoint(t[n])

\* A digit run before any letter run, digit runs as integers, letter runs
\* as text
PartBefore(x, y) ==
    \/ x.typ = "int" /\ y.typ = "str"
    \/ x.typ = "int" /\ y.typ = "int" /\ x.int < y.int
    \/ x.typ = "str" /\ y.typ = "str" /\ TextBefore(x.str, y.str)

\* Token by token: the first position where the keys differ decides, and a
\* key that is a proper prefix of the other comes first
KeyBefore(k1, k2) ==
    \E n \in 1..Len(k2) :
        /\ \A m \in 1..(n - 1) : m <= Len(k1) /\ k1[m] = k2[m]
        /\ \/ n = Len(k1) + 1
           \/ n <= Len(k1) /\ PartBefore(k1[n], k2[n])

Compared == vpc = "compared"

Ordered(v, w, results) == (va = v /\ vb = w) => cmp \in results

\* C6: normalize_version's key of a version string lists its maximal runs of
\* digits and of letters, a digit run as its integer and a letter run as its
\* lower-case text; two keys compare token by token, a digit run before a
\* letter run at the same position, and "1.0.0" < "1.0.0a" < "1.0.1",
\* "1.0.0" < "1.0.0~alpha" < "1.0.1", and "1.0.0+meta" is not below "1.0.0".
C6_TokenOrder ==
    Compared =>
        /\ KeyIsRuns(ka, va) /\ KeyIsRuns(kb, vb)
        /\ cmp = "lt" <=> KeyBefore(ka, kb)
        /\ cmp = "gt" <=> KeyBefore(kb, ka)
        /\ cmp = "eq" <=> ~KeyBefore(ka, kb) /\ ~KeyBefore(kb, ka)
        /\ Ordered(V100, V100a, {"lt"}) /\ Ordered(V100a, V101, {"lt"})
        /\ Ordered(V100, V101, {"lt"})
        /\ Ordered(V100, V100alpha, {"lt"}) /\ Ordered(V100alpha, V101, {"lt"})
        /\ Ordered(V100meta, V100, {"eq", "gt"})

C6_Witness ==
    /\ Compared /\ va = V100alpha /\ vb = V101
    /\ Len(ka) = 4 /\ ka[4].str = <<"a", "l", "p", "h", "a">>
    /\ cmp = "lt"

\* The keys of all the version strings of the comparison runs
AllKeys == {normalize_version(v) : v \in VerInputs}

\* C7: the comparison of two keys never fails and gives exactly one of less,
\* equal and greater, equal exactly for equal keys and less exactly when the
\* converse comparison gives greater; and it is transitive.
C7_TotalTransitive ==
    Compared =>
        /\ cmp \in {"lt", "eq", "gt"}
        /\ cmp = "eq" <=> ka = kb
        /\ cmp = "lt" <=> TupleCmp(kb, ka) = "gt"
        /\ cmp = "gt" <=> TupleCmp(kb, ka) = "lt"
        /\ \A kc \in AllKeys :
             /\ TupleCmp(kb, kc) \in {"lt", "eq", "gt"}
             /\ cmp = "lt" /\ TupleCmp(kb, kc) = "lt" => TupleCmp(ka, kc) = "lt"

\* A digit run met a letter run, and an empty key a non-empty one
C7_Witness ==
    /\ Compared
    /\ va = <<"1">> /\ vb = <<"a">> /\ cmp = "lt"
    /\ normalize_version(<<".">>) = <<>>
    /\ TupleCmp(<<>>, ka) = "lt"

---------------------------------------------------------------------------
(* Separators.                                                             *)

Normalized == vpc = "normalized"

IsSeparator(c) == c \notin Digits /\ c \notin Lower \cup Upper

SeparatorsOf(alphabet) == {c \in alphabet : IsSeparator(c)}

\* v with its separators removed
RECURSIVE StripSeparators(_)
StripSeparators(v) ==
    IF v = <<>> THEN <<>>
    ELSE IF IsSeparator(Head(v)) THEN StripSeparators(Tail(v))
    ELSE <<Head(v)>> \o StripSeparators(Tail(v))

\* Only separators stand between v[i] and v[j], two digits or two letters
SeparatedAlike(v, i, j) ==
    /\ i + 1 < j
    /\ ~IsSeparator(v[i])
    /\ CharClass(v[i]) = CharClass(v[j])
    /\ \A k \in (i + 1)..(j - 1) : IsSeparator(v[k])

SeparatorSplits(v) == \E i, j \in 1..Len(v) : SeparatedAlike(v, i, j)

\* C8 as claimed: the key of a version string is the key of the string
\* with its separators removed.
C8_StrippedFirst ==
    Normalized => ka = normalize_version(StripSeparators(va))

\* C8, amended: no separator is part of a token, but a separator ends the
\* token before it. The key is unchanged when a separator is replaced by
\* another one, so that version strings that differ only in which
\* separators stand at the same places compare as equal; and the key is
\* that of the string with its separators removed exactly when no run of
\* separators stands between two digits or between two letters.
C8_SeparatorsDelimit ==
    Normalized =>
        /\ \A n \in 1..Len(ka) :
             ka[n].typ = "str" => \A m \in 1..Len(ka[n].str) : ~IsSeparator(ka[n].str[m])
        /\ \A i \in 1..Len(va) : \A c \in SeparatorsOf(TokAlphabet) :
             IsSeparator(va[i]) =>
                /\ normalize_version([va EXCEPT ![i] = c]) = ka
                /\ TupleCmp(normalize_version([va EXCEPT ![i] = c]), ka) = "eq"
        /\ ka = normalize_version(StripSeparators(va)) <=> ~SeparatorSplits(va)

\* "1~0.1": separators between digits
C8_Witness ==
    /\ Normalized
    /\ va = <<"1", "~", "0", ".">>
    /\ Len(ka) = 2
    /\ normalize_version(StripSeparators(va)) # ka

---------------------------------------------------------------------------
(* The run of main, for the claims.                                        *)

\* A valid archive: it opens, its descriptor is found and parses, and its
\* id and version are there and not empty
ValidArchive(a) ==
    /\ a.zip = "ok" /\ a.entry = "found" /\ a.xml = "ok"
    /\ a.id # Absent /\ a.id # <<>>
    /\ a.version # Absent /\ a.version # <<>>

ValidIndexes == {i \in 1..Len(zips) : ValidArchive(zips[i])}
ValidWithId(id) == {i \in ValidIndexes : zips[i].id = id}

ScanComplete == idx = Len(zips)

KeyOf(i) == normalize_version(zips[i].version)

AtLeast(k1, k2) == TupleCmp(k1, k2) \in {"gt", "eq"}

\* The descriptors of the document, in its order
AddonSources(content) ==
    LET at == {n \in 1..Len(content) : content[n].tag = "addon"}
        nth(j) == CHOOSE n \in at : Cardinality({m \in at : m <= n}) = j
    IN  [j \in 1..Cardinality(at) |-> content[nth(j)].src]

XmlWritten == \E n \in 1..Len(writes) : writes[n] = "addons.xml"
Md5Written == \E n \in 1..Len(writes) : writes[n] = "addons.xml.md5"

\* C1: once all archives are scanned, every identifier with a valid archive
\* has one record in the table, a valid archive of that identifier whose
\* version is at least that of every valid archive of the identifier; the
\* table holds nothing else, and the document holds these descriptors only.
C1_LatestPerId ==
    ScanComplete =>
        /\ \A i \in ValidIndexes :
             /\ zips[i].id \in DOMAIN latest
             /\ latest[zips[i].id] \in ValidWithId(zips[i].id)
             /\ AtLeast(KeyOf(latest[zips[i].id]), KeyOf(i))
        /\ DOMAIN latest = {zips[i].id : i \in ValidIndexes}
        /\ XmlWritten =>
             LET src == AddonSources(addons_xml.content)
             IN  /\ Len(src) = Cardinality(DOMAIN latest)
                 /\ \A j \in 1..Len(src) :
                      /\ src[j] \in ValidIndexes
                      /\ \A i \in ValidWithId(zips[src[j]].id) :
                           AtLeast(KeyOf(src[j]), KeyOf(i))

\* "1.3.0" scanned before "1.2.0": the document holds the "1.3.0" one only
C1_Witness ==
    /\ pc = "done" /\ exit_code = <<0>>
    /\ Len(zips) >= 2
    /\ ValidArchive(zips[1]) /\ ValidArchive(zips[2])
    /\ zips[1].id = zips[2].id
    /\ zips[1].version = V130 /\ zips[2].version = V120
    /\ AddonSources(addons_xml.content) = <<1>>

\* C2: the document holds one descriptor for each selected identifier and
\* no other, in ascending order of the identifiers, between the declaration
\* and the root element's tags.
C2_SortedDocument ==
    XmlWritten =>
        LET content == addons_xml.content
            src == AddonSources(content)
        IN  /\ Len(content) = Len(src) + 3
            /\ content[1] = XmlDeclaration
            /\ content[2].tag = "<addons>"
            /\ content[Len(content)].tag = "</addons>"
            /\ \A j \in 1..Len(src) : content[j + 2] = Elem(src[j])
            /\ {zips[src[j]].id : j \in 1..Len(src)} = DOMAIN latest
            /\ \A j \in 1..Len(src) : latest[zips[src[j]].id] = src[j]
            /\ \A j \in 1..(Len(src) - 1) :
                 StrCmp(zips[src[j]].id, zips[src[j + 1]].id) = "lt"

\* "b.addon" scanned before "a.addon", and listed after it
C2_Witness ==
    /\ pc = "done" /\ exit_code = <<0>>
    /\ Len(zips) >= 2
    /\ ValidArchive(zips[1]) /\ zips[1].id = IdB
    /\ ValidArchive(zips[2]) /\ zips[2].id = IdA
    /\ AddonSources(addons_xml.content) = <<2, 1>>

\* C3: at the successful end of a run addons.xml.md5 holds the digest of
\* what addons.xml holds, the declaration followed by the serialized root
\* element; and whenever addons.xml.md5 has been written, addons.xml was
\* written before it and the digest is that of its content.
C3_DigestOfFile ==
    /\ pc = "done" /\ exit_code = <<0>> =>
         /\ writes = <<"addons.xml", "addons.xml.md5">>
         /\ addons_xml.exists /\ addons_md5.exists
    /\ Md5Written =>
         /\ writes[1] = "addons.xml"
         /\ addons_xml.content = <<XmlDeclaration>> \o xml_bytes
         /\ xml_bytes[1].tag = "<addons>"
         /\ xml_bytes[Len(xml_bytes)].tag = "</addons>"
         /\ addons_md5.content = md5hex(addons_xml.content)

C3_Witness ==
    /\ pc = "done" /\ exit_code = <<0>>
    /\ Len(addons_xml.content) = 5
    /\ addons_md5.content = md5hex(addons_xml.content)
    /\ addons_md5 # PreviousMd5

\* C4: a scan that ends with an empty table ends the run with a non-zero
\* status and writes no file; a file is written only once all archives are
\* scanned and the table is not empty.
C4_NoOutputWhenEmpty ==
    /\ ScanComplete /\ DOMAIN latest = {} =>
         /\ pc \in {"scan", "done"}
         /\ pc = "scan" => ENABLED ExitNoAddons /\ ~ENABLED SortAndSerialize
         /\ pc = "done" => exit_code = <<1>>
         /\ writes = <<>>
         /\ <<addons_xml, addons_md5>> \in {<<NoFile, NoFile>>, <<PreviousXml, PreviousMd5>>}
    /\ writes # <<>> => ScanComplete /\ DOMAIN latest # {}
    /\ exit_code = <<0>> => DOMAIN latest # {}

\* Archives there were, and all were skipped
C4_Witness ==
    /\ pc = "done" /\ exit_code = <<1>>
    /\ Len(zips) >= 2
    /\ writes = <<>>
    /\ addons_xml = NoFile /\ addons_md5 = NoFile

\* The step skips an archive that is not valid: one warning about it, the
\* table as it was, and the scan goes on with the next archive
SkipsWithWarning ==
    (pc = "scan" /\ idx < Len(zips) /\ ~ValidArchive(zips[idx + 1])) =>
        /\ latest' = latest
        /\ Len(stderr') = Len(stderr) + 1
        /\ stderr'[Len(stderr')].zip_path = idx + 1
        /\ SubSeq(stderr', 1, Len(stderr)) = stderr
        /\ idx' = idx + 1
        /\ pc' = "scan" /\ exit_code' = <<>>

\* No record of the table comes from an archive that is not valid, each
\* such archive scanned has its warning, and once the scan is left every
\* archive was scanned and every valid one considered
FailuresSkipped ==
    /\ \A id \in DOMAIN latest : latest[id] \in ValidIndexes
    /\ \A i \in 1..idx :
         ~ValidArchive(zips[i]) =>
            Cardinality({n \in 1..Len(stderr) : stderr[n].zip_path = i}) = 1
    /\ pc # "scan" =>
         /\ ScanComplete
         /\ \A i \in ValidIndexes :
              /\ zips[i].id \in DOMAIN latest
              /\ AtLeast(KeyOf(latest[zips[i].id]), KeyOf(i))

\* C5: an archive that fails is skipped with a warning, adds no record and
\* leaves the table as it was, and the run goes on: every valid archive is
\* still scanned and considered.
C5_FailuresSkipped == [][SkipsWithWarning]_vars /\ []FailuresSkipped

\* A failed archive first, then a valid one, which is selected
C5_Witness ==
    /\ idx >= 2
    /\ ~ValidArchive(zips[1]) /\ zips[1].version = <<>>
    /\ ValidArchive(zips[2])
    /\ latest[zips[2].id] = 2
    /\ Len(stderr) = 1

\* A kept record stays or gives way to one of a strictly greater version
ReplacedByGreaterOnly ==
    \A id \in DOMAIN latest :
        /\ id \in DOMAIN latest'
        /\ latest'[id] # latest[id] =>
             TupleCmp(KeyOf(latest'[id]), KeyOf(latest[id])) = "gt"

\* The valid archives of an identifier scanned so far, and the first of
\* them among those of the greatest version
ScannedWithId(id) == {i \in ValidWithId(id) : i <= idx}
FirstOfGreatest(id) ==
    CHOOSE i \in ScannedWithId(id) :
        \A j \in ScannedWithId(id) :
            /\ AtLeast(KeyOf(i), KeyOf(j))
            /\ TupleCmp(KeyOf(i), KeyOf(j)) = "eq" => i <= j

KeepsFirstOfGreatest ==
    /\ \A id \in DOMAIN latest : latest[id] = FirstOfGreatest(id)
    /\ XmlWritten =>
         \A j \in 1..Len(AddonSources(addons_xml.content)) :
            LET i == AddonSources(addons_xml.content)[j]
            IN  i = FirstOfGreatest(zips[i].id)

\* C9: a record replaces the kept one of its identifier only when its
\* version is strictly greater, so the kept version never decreases; of
\* records with equal versions the one scanned first is kept and emitted.
C9_TiesKeepFirst == [][ReplacedByGreaterOnly]_vars /\ []KeepsFirstOfGreatest

\* "1.3.0" then "1.03.0": equal keys, the first one is emitted
C9_Witness ==
    /\ pc = "done" /\ exit_code = <<0>>
    /\ Len(zips) >= 2
    /\ ValidArchive(zips[1]) /\ ValidArchive(zips[2])
    /\ zips[1].id = zips[2].id
    /\ zips[1].version = V130 /\ zips[2].version = V1030
    /\ TupleCmp(KeyOf(1), KeyOf(2)) = "eq"
    /\ AddonSources(addons_xml.content) = <<1>>

\* The scan orders of the archives
ScanOrders ==
    {p \in [1..Len(zips) -> 1..Len(zips)] :
        \A m, n \in 1..Len(zips) : p[m] = p[n] => m = n}

\* Two valid archives of one identifier have equal versions, the greatest
\* of the identifier
TieAtMaximum ==
    \E i, j \in ValidIndexes :
        /\ i # j /\ zips[i].id = zips[j].id
        /\ TupleCmp(KeyOf(i), KeyOf(j)) = "eq"
        /\ \A n \in ValidWithId(zips[i].id) : AtLeast(KeyOf(i), KeyOf(n))

SameUpToTies(tbl) ==
    /\ DOMAIN tbl = DOMAIN latest
    /\ \A id \in DOMAIN tbl :
         tbl[id] # latest[id] => TupleCmp(KeyOf(tbl[id]), KeyOf(latest[id])) = "eq"
    /\ tbl # latest =>
         LET other == Document(tbl)
             this == Document(latest)
         IN  /\ other # this => TieAtMaximum
             /\ md5hex(other) # md5hex(this) => TieAtMaximum

\* C10: at the end of a run, the table that any other scan order of the
\* same archives gives has the same identifiers and, for each, a version of
\* an equal key; its document and checksum differ from this run's only when
\* two valid archives of an identifier tie at the greatest version.
C10_OrderIndependent ==
    pc = "done" =>
        /\ \A p \in ScanOrders :
             LET other == ScanAll(EmptyDict, p) IN SameUpToTies(other)
        /\ exit_code = <<0>> => addons_xml.content = Document(latest)

\* A tie at the greatest version: another order emits another document
C10_Witness ==
    /\ pc = "done" /\ exit_code = <<0>>
    /\ Len(zips) = 3
    /\ zips[1].version = V120 /\ zips[2].version = V130 /\ zips[3].version = V1030
    /\ zips[1].id = zips[2].id /\ zips[2].id = zips[3].id
    /\ \E p \in ScanOrders :
         /\ Document(ScanAll(EmptyDict, p)) # addons_xml.content
         /\ SameUpToTies(ScanAll(EmptyDict, p))

===========================================================================
